---- MODULE Spec2Model ----
(***************************************************************************)
(* Model of zli_chunk.py: main() plans fixed-size chunks of a source file, *)
(* a multiprocessing.Pool maps zli_compress_routine over the plan, and     *)
(* each routine reads its chunk, writes '{idx}.npy', compresses it with    *)
(* the le-i64 profile, falls back on le-i32, and unlinks '{idx}.npy'.      *)
(*                                                                         *)
(* Environment assumptions (stated once, used everywhere):                 *)
(*  - the working directory holds only the source file when the run starts;*)
(*  - the source file exists and is not named like a temporary chunk file; *)
(*  - the zli binary exists; an invocation either exits 0 and has written  *)
(*    its --output file, or exits non-zero (CalledProcessError) and has    *)
(*    written nothing;                                                     *)
(*  - --chunk-size is positive.                                            *)
(*                                                                         *)
(* Specifications: Spec (the run under the assumptions above), FairSpec    *)
(* (Spec with fair scheduling), SpecCleanup (os.unlink may fail),          *)
(* SpecAlias (the source file is named '0.npy' or '1.npy').                *)
(***************************************************************************)
EXTENDS Integers, Sequences, FiniteSets, TLC

(* ---- bounds of the model ---- *)
MaxFileSize == 3
MaxChunkSize == 2
MaxBatchedFileSize == 6

(* ---- program constants ---- *)
FILE_EXTENSION == "npy"
ZLI_EXTENSION == "zli"
ZLI_ALGO_I8 == "le-i64"
ZLI_ALGO_I4 == "le-i32"
MaxProcessCount == 1024
PoolBatchFactor == 4

None == "None"
SourceName == "data.bin"

(* ---- inputs ---- *)
FnameChoices == {None, SourceName}
ProcessChoices == {-1, 0, 1, 2, 3, MaxProcessCount, MaxProcessCount + 1}
ChunkSizeChoices == 1..MaxChunkSize
FileSizeChoices == 0..MaxFileSize
(* long single-worker runs: more chunks than 4 * pool size, so that        *)
(* Pool.map hands the chunks out in batches of more than one               *)
BatchedFileSizeChoices == (PoolBatchFactor + 1)..MaxBatchedFileSize

VARIABLES
    pc,            \* position of main()
    arguments,     \* parsed command line: fname, process, chunk_size
    fs,            \* working directory: file name -> content
    instructions,  \* the plan built by main()
    processes,     \* size the pool is asked for
    taskqueue,     \* batches of instructions not yet taken by a worker
    worker,        \* per pool process: remaining batch, position, data read
    outcome,       \* per chunk idx: how far zli_compress_routine got
    attempts,      \* per chunk idx: the zli invocations made, in order
    calls,         \* per chunk idx: how often zli_compress_routine was entered
    number_left,   \* MapResult._number_left: batches not yet reported
    mapExc,        \* MapResult._value when a batch failed (first one only)
    exitStatus,    \* process exit status, -1 while running
    error          \* the exception that ended main(), if any

vars == <<pc, arguments, fs, instructions, processes, taskqueue, worker,
          outcome, attempts, calls, number_left, mapExc, exitStatus, error>>

Min(a, b) == IF a < b THEN a ELSE b

(* ---- files ---- *)
(* A content is the interval [lo, hi) of source bytes it holds; a          *)
(* compressed artifact also records the profile that produced it.          *)
Bytes(lo, hi) == [lo |-> lo, hi |-> hi, zli |-> None]

Exists(name) == name \in DOMAIN fs

WriteFile(files, name, content) == (name :> content) @@ files


(* variant: the file is left in place *)
UnlinkNoop(files, name) == files

Unlink(files, name) == [x \in (DOMAIN files) \ {name} |-> files[x]]


(* variant: a read that is not cut short at end of file *)
ReadAtUnclipped(content, offset, chunk) ==
    Bytes(content.lo + offset, content.lo + offset + chunk)


(* variant: the read starts at the beginning of the file (no seek) *)
ReadAtNoSeek(content, offset, chunk) ==
    Bytes(content.lo, Min(content.lo + chunk, content.hi))

(* f.seek(offset); f.read(chunk): at most chunk bytes, short at EOF *)
ReadAt(content, offset, chunk) ==
    Bytes(Min(content.lo + offset, content.hi),
          Min(content.lo + offset + chunk, content.hi))

ContentLen(content) == content.hi - content.lo


(* variant: every chunk uses the same temporary file name *)
TempNameShared(idx) == "0." \o FILE_EXTENSION

TempName(idx) == ToString(idx) \o "." \o FILE_EXTENSION


(* variant: the output infix does not follow the profile *)
CompAlwaysWide(algo) == 8

Comp(algo) == IF algo = ZLI_ALGO_I8 THEN 8 ELSE 4

OutputName(idx, algo) ==
    ToString(idx) \o "." \o FILE_EXTENSION \o "." \o ToString(Comp(algo))
        \o "." \o ZLI_EXTENSION

(* ---- the planner ---- *)
RECURSIVE Range(_, _, _)
Range(start, stop, step) ==
    IF start >= stop THEN << >>
    ELSE <<start>> \o Range(start + step, stop, step)


(* variant: the range includes its stop value *)
PlanOffsetsInclusive(b, chunk_size) == Range(0, b + 1, chunk_size)

PlanOffsets(b, chunk_size) == Range(0, b, chunk_size)

BuildInstructions(b, args) ==
    LET offs == PlanOffsets(b, args.chunk_size)
    IN  [k \in 1..Len(offs) |->
            [idx |-> k - 1, offset |-> offs[k], chunk |-> args.chunk_size,
             fname |-> args.fname]]

ProcessCountTooHigh(process) == process > MaxProcessCount


(* variant: the pool size is not clamped to the number of chunks *)
PoolSizeUnclamped(process, n) == process

(* variant: the larger of the two is taken *)
PoolSizeMax(process, n) == IF process > n THEN process ELSE n

PoolSize(process, n) == Min(process, n)

(* ---- Pool.map: batching of the iterable ---- *)
MapChunksize(n, poolsize) ==
    IF n = 0 THEN 0
    ELSE LET q == n \div (poolsize * PoolBatchFactor)
             r == n % (poolsize * PoolBatchFactor)
         IN  IF r # 0 THEN q + 1 ELSE q


(* variant: batches of one, the first item handed out twice *)
GetTasksRepeatFirst(seq, size) ==
    IF seq = << >> THEN << >>
    ELSE [k \in 1..(Len(seq) + 1) |-> << seq[IF k = 1 THEN 1 ELSE k - 1] >>]

RECURSIVE GetTasks(_, _)
GetTasks(seq, size) ==
    IF seq = << >> THEN << >>
    ELSE IF Len(seq) <= size THEN << seq >>
    ELSE << SubSeq(seq, 1, size) >> \o GetTasks(SubSeq(seq, size + 1, Len(seq)), size)

PoolCtorRejects(n) == n < 1

Init ==
    /\ pc = "parse"
    /\ \/ /\ \E f \in FnameChoices, p \in ProcessChoices, c \in ChunkSizeChoices :
                arguments = [fname |-> f, process |-> p, chunk_size |-> c]
          /\ \E b \in FileSizeChoices : fs = (SourceName :> Bytes(0, b))
       \/ /\ arguments = [fname |-> SourceName, process |-> 1, chunk_size |-> 1]
          /\ \E b \in BatchedFileSizeChoices : fs = (SourceName :> Bytes(0, b))
    /\ instructions = << >>
    /\ processes = 0
    /\ taskqueue = << >>
    /\ worker = << >>
    /\ outcome = << >>
    /\ attempts = << >>
    /\ calls = << >>
    /\ number_left = 0
    /\ mapExc = None
    /\ exitStatus = -1
    /\ error = None

(* ---- main() ---- *)

(* variant: the process count is validated before the file name is looked at *)
NoFileProvidedValidated ==
    /\ pc = "parse"
    /\ arguments.fname = None
    /\ pc' = "exited"
    /\ IF ProcessCountTooHigh(arguments.process)
       THEN exitStatus' = 1 /\ error' = "ProcessCountError"
       ELSE exitStatus' = 0 /\ error' = error
    /\ UNCHANGED <<calls, arguments, fs, instructions, processes, taskqueue, worker,
                   outcome, attempts, number_left, mapExc>>

NoFileProvided ==
    /\ pc = "parse"
    /\ arguments.fname = None
    /\ pc' = "exited"
    /\ exitStatus' = 0
    /\ UNCHANGED <<calls, arguments, fs, instructions, processes, taskqueue, worker,
                   outcome, attempts, number_left, mapExc, error>>

RejectProcessCount ==
    /\ pc = "parse"
    /\ arguments.fname # None
    /\ ProcessCountTooHigh(arguments.process)
    /\ pc' = "exited"
    /\ exitStatus' = 1
    /\ error' = "ProcessCountError"
    /\ UNCHANGED <<calls, arguments, fs, instructions, processes, taskqueue, worker,
                   outcome, attempts, number_left, mapExc>>

Plan ==
    /\ pc = "parse"
    /\ arguments.fname # None
    /\ ~ProcessCountTooHigh(arguments.process)
    /\ LET b == ContentLen(fs[arguments.fname])
           ins == BuildInstructions(b, arguments)
       IN  /\ instructions' = ins
           /\ processes' = PoolSize(arguments.process, Len(ins))
           /\ outcome' = [i \in 0..(Len(ins) - 1) |-> "pending"]
           /\ attempts' = [i \in 0..(Len(ins) - 1) |-> << >>]
           /\ calls' = [i \in 0..(Len(ins) - 1) |-> 0]
    /\ pc' = "pool"
    /\ UNCHANGED <<arguments, fs, taskqueue, worker, number_left, mapExc,
                   exitStatus, error>>

PoolRejected ==
    /\ pc = "pool"
    /\ PoolCtorRejects(processes)
    /\ pc' = "exited"
    /\ exitStatus' = 1
    /\ error' = "ValueError"
    /\ UNCHANGED <<calls, arguments, fs, instructions, processes, taskqueue, worker,
                   outcome, attempts, number_left, mapExc>>

PoolMapStart ==
    /\ pc = "pool"
    /\ ~PoolCtorRejects(processes)
    /\ LET tasks == GetTasks(instructions, MapChunksize(Len(instructions), processes))
       IN  /\ taskqueue' = tasks
           /\ number_left' = Len(tasks)
    /\ worker' = [w \in 1..processes |-> [task |-> << >>, pc |-> "idle", data |-> None]]
    /\ pc' = "map"
    /\ UNCHANGED <<calls, arguments, fs, instructions, processes, outcome, attempts,
                   mapExc, exitStatus, error>>

MapReturn ==
    /\ pc = "map"
    /\ number_left = 0
    /\ pc' = "exited"
    /\ IF mapExc = None
       THEN exitStatus' = 0 /\ error' = error
       ELSE exitStatus' = 1 /\ error' = mapExc
    /\ UNCHANGED <<calls, arguments, fs, instructions, processes, taskqueue, worker,
                   outcome, attempts, number_left, mapExc>>

(* ---- _zli_compress_retry: where control goes after each attempt ---- *)

(* variant: no return after the wide attempt *)
RetryAfterI8NoReturn(ok) == ZLI_ALGO_I4

RetryAfterI8(ok) == IF ok THEN "return" ELSE ZLI_ALGO_I4


(* variant: the failure of the narrow attempt is swallowed *)
RetryAfterI4Swallow(ok) == "return"

RetryAfterI4(ok) == IF ok THEN "return" ELSE "ZliCompressFailure"

(* ---- MapResult._set: a batch reports its result ---- *)
FirstException(stored, exc) == IF stored = None THEN exc ELSE stored

(* ---- pool workers ---- *)
Instr(w) == Head(worker[w].task)


(* variant: a worker takes a batch while it is still busy with one *)
TakeTaskBusy(w) ==
    /\ pc = "map"
    /\ taskqueue # << >>
    /\ worker' = [worker EXCEPT ![w] = [task |-> Head(taskqueue), pc |-> "read", data |-> None]]
    /\ taskqueue' = Tail(taskqueue)
    /\ UNCHANGED <<calls, pc, arguments, fs, instructions, processes, outcome, attempts,
                   number_left, mapExc, exitStatus, error>>

TakeTask(w) ==
    /\ pc = "map"
    /\ worker[w].pc = "idle"
    /\ taskqueue # << >>
    /\ worker' = [worker EXCEPT ![w] = [task |-> Head(taskqueue), pc |-> "read", data |-> None]]
    /\ taskqueue' = Tail(taskqueue)
    /\ UNCHANGED <<calls, pc, arguments, fs, instructions, processes, outcome, attempts,
                   number_left, mapExc, exitStatus, error>>

(* zli_compress_routine, lines 108-110 *)
ReadChunk(w) ==
    /\ pc = "map"
    /\ worker[w].pc = "read"
    /\ Exists(Instr(w).fname)
    /\ worker' = [worker EXCEPT ![w].pc = "write",
                                ![w].data = ReadAt(fs[Instr(w).fname], Instr(w).offset, Instr(w).chunk)]
    /\ outcome' = [outcome EXCEPT ![Instr(w).idx] = "running"]
    /\ calls' = [calls EXCEPT ![Instr(w).idx] = @ + 1]
    /\ UNCHANGED <<pc, arguments, fs, instructions, processes, taskqueue, attempts,
                   number_left, mapExc, exitStatus, error>>

(* zli_compress_routine, lines 111-112 *)
WriteTemp(w) ==
    /\ pc = "map"
    /\ worker[w].pc = "write"
    /\ fs' = WriteFile(fs, TempName(Instr(w).idx), worker[w].data)
    /\ worker' = [worker EXCEPT ![w].pc = ZLI_ALGO_I8, ![w].data = None]
    /\ UNCHANGED <<calls, pc, arguments, instructions, processes, taskqueue, outcome, attempts,
                   number_left, mapExc, exitStatus, error>>

(* _zli_compress(fname, zli_bin, algo): one run of the external tool *)
ZliCompress(files, fname, algo, ok) ==
    IF ok /\ TempName(fname) \in DOMAIN files
    THEN WriteFile(files, OutputName(fname, algo),
                   [files[TempName(fname)] EXCEPT !.zli = algo])
    ELSE files

(* the batch of worker w ends with an exception: mapstar stops there *)
BatchFailed(w, exc) ==
    /\ worker' = [worker EXCEPT ![w] = [task |-> << >>, pc |-> "idle", data |-> None]]
    /\ number_left' = number_left - 1
    /\ mapExc' = FirstException(mapExc, exc)


(* variant: the result of a finished batch is never reported *)
ItemReturnedLost(w) ==
    /\ worker' = [worker EXCEPT ![w] = [task |-> << >>, pc |-> "idle", data |-> None]]
    /\ UNCHANGED number_left

(* zli_compress_routine returned for the head of the batch of worker w *)
ItemReturned(w) ==
    IF Len(worker[w].task) > 1
    THEN /\ worker' = [worker EXCEPT ![w].task = Tail(@), ![w].pc = "read"]
         /\ UNCHANGED number_left
    ELSE /\ worker' = [worker EXCEPT ![w] = [task |-> << >>, pc |-> "idle", data |-> None]]
         /\ number_left' = number_left - 1

(* _zli_compress_retry, lines 93-97 *)
CompressI8(w, ok) ==
    /\ pc = "map"
    /\ worker[w].pc = ZLI_ALGO_I8
    /\ LET idx == Instr(w).idx
           good == ok /\ Exists(TempName(idx))
       IN  /\ fs' = ZliCompress(fs, idx, ZLI_ALGO_I8, good)
           /\ attempts' = [attempts EXCEPT ![idx] = Append(@, [algo |-> ZLI_ALGO_I8, ok |-> good])]
           /\ worker' = [worker EXCEPT ![w].pc =
                            IF RetryAfterI8(good) = "return" THEN "unlink" ELSE RetryAfterI8(good)]
    /\ UNCHANGED <<calls, pc, arguments, instructions, processes, taskqueue, outcome,
                   number_left, mapExc, exitStatus, error>>

(* _zli_compress_retry, lines 99-104; on exhaustion the exception leaves   *)
(* zli_compress_routine before line 114 and ends the batch                 *)
CompressI4(w, ok) ==
    /\ pc = "map"
    /\ worker[w].pc = ZLI_ALGO_I4
    /\ LET idx == Instr(w).idx
           good == ok /\ Exists(TempName(idx))
       IN  /\ fs' = ZliCompress(fs, idx, ZLI_ALGO_I4, good)
           /\ attempts' = [attempts EXCEPT ![idx] = Append(@, [algo |-> ZLI_ALGO_I4, ok |-> good])]
           /\ IF RetryAfterI4(good) = "return"
              THEN /\ worker' = [worker EXCEPT ![w].pc = "unlink"]
                   /\ UNCHANGED <<outcome, number_left, mapExc>>
              ELSE /\ outcome' = [outcome EXCEPT ![idx] = "raised"]
                   /\ BatchFailed(w, RetryAfterI4(good))
    /\ UNCHANGED <<calls, pc, arguments, instructions, processes, taskqueue,
                   exitStatus, error>>

(* zli_compress_routine, line 114, then the routine returns *)
UnlinkTemp(w) ==
    /\ pc = "map"
    /\ worker[w].pc = "unlink"
    /\ Exists(TempName(Instr(w).idx))
    /\ fs' = Unlink(fs, TempName(Instr(w).idx))
    /\ outcome' = [outcome EXCEPT ![Instr(w).idx] = "returned"]
    /\ ItemReturned(w)
    /\ UNCHANGED <<calls, pc, arguments, instructions, processes, taskqueue, attempts,
                   mapExc, exitStatus, error>>

Workers == DOMAIN worker

Next ==
    \/ NoFileProvided
    \/ RejectProcessCount
    \/ Plan
    \/ PoolRejected
    \/ PoolMapStart
    \/ MapReturn
    \/ \E w \in Workers : TakeTask(w)
    \/ \E w \in Workers : ReadChunk(w)
    \/ \E w \in Workers : WriteTemp(w)
    \/ \E w \in Workers, ok \in BOOLEAN : CompressI8(w, ok)
    \/ \E w \in Workers, ok \in BOOLEAN : CompressI4(w, ok)
    \/ \E w \in Workers : UnlinkTemp(w)

Spec == Init /\ [][Next]_vars

(* main() and the pool processes are operating-system processes: a step    *)
(* that stays possible is eventually taken                                 *)
FairSpec == Spec /\ WF_vars(Next)

(* ---- a run in which deleting the temporary file can fail ---- *)
(* zli_compress_routine, line 114: os.unlink raises OSError (the file is   *)
(* left in place), nothing catches it, so the routine raises               *)
UnlinkFails(w) ==
    /\ pc = "map"
    /\ worker[w].pc = "unlink"
    /\ outcome' = [outcome EXCEPT ![Instr(w).idx] = "raised"]
    /\ BatchFailed(w, "OSError")
    /\ UNCHANGED <<calls, pc, arguments, fs, instructions, processes, taskqueue,
                   attempts, exitStatus, error>>

NextCleanup ==
    \/ Next
    \/ \E w \in Workers : UnlinkFails(w)

SpecCleanup == Init /\ [][NextCleanup]_vars

(* ---- a run whose source file is named like a temporary chunk file ---- *)
TempNamedSources == {TempName(0), TempName(1)}

AliasProcessChoices == {0, 1, 2, MaxProcessCount + 1}

InitAlias ==
    /\ pc = "parse"
    /\ \E src \in TempNamedSources :
          /\ \E f \in {None, src}, p \in AliasProcessChoices, c \in ChunkSizeChoices :
                arguments = [fname |-> f, process |-> p, chunk_size |-> c]
          /\ \E b \in FileSizeChoices : fs = (src :> Bytes(0, b))
    /\ instructions = << >>
    /\ processes = 0
    /\ taskqueue = << >>
    /\ worker = << >>
    /\ outcome = << >>
    /\ attempts = << >>
    /\ calls = << >>
    /\ number_left = 0
    /\ mapExc = None
    /\ exitStatus = -1
    /\ error = None

(* zli_compress_routine, line 108: open() raises FileNotFoundError *)
ReadMissing(w) ==
    /\ pc = "map"
    /\ worker[w].pc = "read"
    /\ ~Exists(Instr(w).fname)
    /\ calls' = [calls EXCEPT ![Instr(w).idx] = @ + 1]
    /\ outcome' = [outcome EXCEPT ![Instr(w).idx] = "raised"]
    /\ BatchFailed(w, "FileNotFoundError")
    /\ UNCHANGED <<pc, arguments, fs, instructions, processes, taskqueue,
                   attempts, exitStatus, error>>

NextAlias ==
    \/ Next
    \/ \E w \in Workers : ReadMissing(w)

SpecAlias == InitAlias /\ [][NextAlias]_vars

(***************************************************************************)
(* Properties                                                              *)
(***************************************************************************)
Chunks == DOMAIN outcome

FileNamed == arguments.fname # None

FileSize == ContentLen(fs[SourceName])

NumChunks == Len(instructions)

(* main() got past the validation and built the plan *)
Planned == pc \in {"pool", "map"} \/ (pc = "exited" /\ FileNamed /\ error # "ProcessCountError")

(* the pool exists (or existed) and map() was called *)
Mapped == pc = "map" \/ (pc = "exited" /\ Planned /\ error # "ValueError")

Finished(i) == outcome[i] \in {"returned", "raised"}

CeilDiv(a, b) == (a + b - 1) \div b

RECURSIVE SumTo(_, _)
SumTo(f, n) == IF n = 0 THEN 0 ELSE f[n] + SumTo(f, n - 1)

WideAttempt(ok) == [algo |-> "le-i64", ok |-> ok]

NarrowAttempt(ok) == [algo |-> "le-i32", ok |-> ok]

WideArtifact(i) == ToString(i) \o ".npy.8.zli"

NarrowArtifact(i) == ToString(i) \o ".npy.4.zli"

TempFile(i) == ToString(i) \o ".npy"

(* the compressed files in the working directory that hold chunk i's bytes *)
ArtifactsOf(i) ==
    {name \in DOMAIN fs : fs[name].zli # None /\ fs[name].lo = i * arguments.chunk_size}

NoWorkDone ==
    /\ DOMAIN fs = {SourceName}
    /\ \A i \in Chunks : attempts[i] = << >> /\ outcome[i] = "pending"
    /\ worker = << >>

(* C1: once zli_compress_routine has finished for a chunk (returned or     *)
(* raised), the temporary chunk file '{idx}.npy' does not exist.           *)
C1_TempGoneWhenFinished ==
    \A i \in Chunks : Finished(i) => ~Exists(TempFile(i))

(* C2: the pool attempts every chunk whatever the other chunks' outcomes:  *)
(* when map() reports (returns or raises), every chunk of the plan has     *)
(* been started and has run to its end.                                    *)
C2_EveryChunkAttempted ==
    (pc = "exited" /\ Mapped) => \A i \in Chunks : Finished(i)

(* C3: a run with a named input file and a valid configuration ends with   *)
(* a fatal error and non-zero status if and only if some chunk failed with *)
(* both profiles; otherwise it exits with status 0.                        *)
C3_FatalIffExhausted ==
    (pc = "exited" /\ FileNamed /\ arguments.process \in 1..1024)
        => /\ exitStatus \in {0, 1}
           /\ (exitStatus # 0) <=>
                  (\E i \in Chunks : attempts[i] = <<WideAttempt(FALSE), NarrowAttempt(FALSE)>>)
           /\ (exitStatus # 0) <=> (error # None)

(* C4: for a chunk where both the wide and the narrow attempt fail,        *)
(* _zli_compress_retry raises ZliCompressFailure after exactly two         *)
(* attempts and no compressed artifact exists for the chunk.               *)
C4_ExhaustionRaises ==
    \A i \in Chunks :
        /\ (Len(attempts[i]) >= 2 /\ ~attempts[i][1].ok /\ ~attempts[i][2].ok)
              => /\ outcome[i] = "raised"
                 /\ mapExc = "ZliCompressFailure"
        /\ outcome[i] = "raised"
              => /\ attempts[i] = <<WideAttempt(FALSE), NarrowAttempt(FALSE)>>
                 /\ ArtifactsOf(i) = {}
                 /\ ~Exists(WideArtifact(i)) /\ ~Exists(NarrowArtifact(i))

C4_Witness ==
    \E i \in Chunks : outcome[i] = "raised" /\ Len(attempts[i]) = 2

(* C5: for a chunk where the wide profile fails and the narrow one         *)
(* succeeds, exactly two attempts are made, wide then narrow, and exactly  *)
(* one artifact exists for the chunk, '{idx}.npy.4.zli'.                   *)
C5_FallbackToNarrow ==
    \A i \in Chunks :
        /\ Len(attempts[i]) <= 2
        /\ (Len(attempts[i]) >= 1 /\ ~attempts[i][1].ok)
              => /\ attempts[i][1] = WideAttempt(FALSE)
                 /\ ~Exists(WideArtifact(i))
        /\ (\E k \in DOMAIN attempts[i] : attempts[i][k].algo = "le-i32" /\ attempts[i][k].ok)
              => /\ attempts[i] = <<WideAttempt(FALSE), NarrowAttempt(TRUE)>>
                 /\ ArtifactsOf(i) = {NarrowArtifact(i)}

C5_Witness ==
    \E i \in Chunks :
        /\ attempts[i] = <<WideAttempt(FALSE), NarrowAttempt(TRUE)>>
        /\ outcome[i] = "returned"

(* C6: for a chunk on which the wide profile succeeds, exactly one attempt *)
(* is made (the narrow profile is never invoked) and exactly one artifact  *)
(* exists for the chunk, '{idx}.npy.8.zli'.                                *)
C6_WideSuccessIsFinal ==
    \A i \in Chunks :
        (Len(attempts[i]) >= 1 /\ attempts[i][1].ok)
            => /\ attempts[i] = <<WideAttempt(TRUE)>>
               /\ ArtifactsOf(i) = {WideArtifact(i)}

C6_Witness ==
    \E i \in Chunks : attempts[i] = <<WideAttempt(TRUE)>> /\ outcome[i] = "returned"

(* the number of bytes the routine obtains for the k-th instruction *)
BytesRead(k) ==
    ContentLen(ReadAt(Bytes(0, FileSize), instructions[k].offset, instructions[k].chunk))

C8_PlanShape ==
    Planned =>
        /\ NumChunks = CeilDiv(FileSize, arguments.chunk_size)
        /\ (FileSize = 0 => NumChunks = 0)
        /\ \A k \in 1..NumChunks :
              /\ instructions[k].idx = k - 1
              /\ instructions[k].offset = instructions[k].idx * arguments.chunk_size
              /\ instructions[k].offset < FileSize

C8_Witness ==
    /\ Planned
    /\ NumChunks >= 2
    /\ FileSize % arguments.chunk_size # 0

(* C9: the pool is created with min(configured concurrency, number of      *)
(* chunks) workers, and a configured concurrency above 1024 is rejected    *)
(* before any chunk is processed: no temp file, no compression attempt.    *)
C9_PoolClampedAndCapped ==
    /\ Mapped =>
          /\ Len(worker) = IF arguments.process <= NumChunks
                           THEN arguments.process ELSE NumChunks
          /\ processes = Len(worker)
    /\ arguments.process > 1024 =>
          /\ NoWorkDone
          /\ pc \in {"parse", "exited"}
          /\ (pc = "exited" /\ FileNamed) =>
                (exitStatus = 1 /\ error = "ProcessCountError")

C9_Witness ==
    /\ Mapped
    /\ arguments.process > NumChunks
    /\ Len(worker) = NumChunks
    /\ \E i \in Chunks : Finished(i)

C9_WitnessRejected ==
    arguments.process > 1024 /\ FileNamed /\ pc = "exited"

(* C10 as stated: any concurrency outside 1..1024 is rejected as a         *)
(* configuration error (ProcessCountError) before any work starts.         *)
C10_RangeValidated ==
    (FileNamed /\ arguments.process \notin 1..1024) =>
        /\ NoWorkDone
        /\ pc = "exited" => (exitStatus = 1 /\ error = "ProcessCountError")

(* C10 amended: a concurrency above 1024 is rejected by main() with        *)
(* ProcessCountError; a concurrency below 1 passes main()'s validation and *)
(* is rejected by the pool's constructor with ValueError; in both cases no *)
(* work starts, and whenever the pool is created its size is at least 1.   *)
C10_RangeRejected ==
    /\ (FileNamed /\ arguments.process \notin 1..1024) =>
          /\ NoWorkDone
          /\ pc # "map"
          /\ pc = "exited" =>
                /\ exitStatus = 1
                /\ error = IF arguments.process > 1024
                           THEN "ProcessCountError" ELSE "ValueError"
    /\ Mapped => (Len(worker) >= 1 /\ processes >= 1)

C10_Witness ==
    FileNamed /\ arguments.process < 1 /\ pc = "exited" /\ error = "ValueError"

Exhausted(i) == attempts[i] = <<WideAttempt(FALSE), NarrowAttempt(FALSE)>>

AllArtifacts == {name \in DOMAIN fs : fs[name].zli # None}

(* C11: a run on an existing empty source file with a valid configuration  *)
(* plans no chunk, does no work and exits with status 0.                   *)
C11_EmptyFileSucceeds ==
    (pc = "exited" /\ FileNamed /\ arguments.process \in 1..1024 /\ FileSize = 0)
        => /\ NumChunks = 0
           /\ NoWorkDone
           /\ exitStatus = 0

(* C12: an all-success run over k >= 1 full chunks with more configured    *)
(* workers than chunks ends with a pool of k workers, exactly k compressed *)
(* artifacts, one per chunk index, and no temporary chunk file left.       *)
C12_AllSuccessRun ==
    ( /\ pc = "exited" /\ Mapped
      /\ NumChunks >= 1
      /\ FileSize = NumChunks * arguments.chunk_size
      /\ arguments.process > NumChunks
      /\ \A i \in Chunks : ~Exhausted(i) )
        => /\ Len(worker) = NumChunks
           /\ exitStatus = 0
           /\ \A i \in Chunks :
                 /\ Cardinality(ArtifactsOf(i)) = 1
                 /\ ArtifactsOf(i) \subseteq {WideArtifact(i), NarrowArtifact(i)}
                 /\ ~Exists(TempFile(i))
           /\ Cardinality(AllArtifacts) = NumChunks
           /\ DOMAIN fs = AllArtifacts \cup {SourceName}

C12_Witness ==
    /\ pc = "exited" /\ exitStatus = 0
    /\ NumChunks = 3 /\ FileSize = 3 * arguments.chunk_size
    /\ arguments.process > 3
    /\ Len(worker) = 3
    /\ Cardinality(AllArtifacts) = 3

(* C13: no chunk descriptor is handed to zli_compress_routine more than    *)
(* once, and in a run that ends without a chunk failure every descriptor   *)
(* was processed exactly once.                                             *)
C13_ExactlyOnce ==
    /\ \A i \in Chunks :
          /\ calls[i] <= 1
          /\ calls[i] = 1 <=> outcome[i] # "pending"
    /\ (pc = "exited" /\ Mapped /\ exitStatus = 0) =>
          \A i \in Chunks : calls[i] = 1 /\ outcome[i] = "returned"

C13_Witness ==
    /\ pc = "exited" /\ exitStatus = 0
    /\ NumChunks > PoolBatchFactor
    /\ \A i \in Chunks : calls[i] = 1

(* C15: a run that names no input file exits with status 0 and performs no *)
(* filesystem write and no compression attempt, whatever the other         *)
(* arguments are, a worker count above 1024 included.                      *)
C15_NoFileNoOp ==
    ~FileNamed =>
        /\ pc \in {"parse", "exited"}
        /\ NoWorkDone
        /\ instructions = << >>
        /\ fs[SourceName].lo = 0 /\ fs[SourceName].zli = None
        /\ pc = "exited" => (exitStatus = 0 /\ error = None)

C15_Witness ==
    ~FileNamed /\ arguments.process > 1024 /\ pc = "exited" /\ exitStatus = 0

InProgress == {i \in Chunks : outcome[i] = "running"}

(* the workers whose current batch has chunk i at its head *)
Holders(i) ==
    {w \in DOMAIN worker : worker[w].task # << >> /\ Head(worker[w].task).idx = i}

(* C17: at every moment at most N = min(configured concurrency, number of  *)
(* chunks) chunks are in progress and each worker has at most one chunk in *)
(* progress: it takes its next chunk only after the previous routine ended.*)
C17_BoundedInProgress ==
    Mapped =>
        /\ Cardinality(InProgress) <=
              (IF arguments.process <= NumChunks THEN arguments.process ELSE NumChunks)
        /\ \A i \in Chunks :
              /\ i \in InProgress =>
                    /\ Cardinality(Holders(i)) = 1
                    /\ \A w \in Holders(i) : worker[w].pc \notin {"idle", "read"}
              /\ Finished(i) => Holders(i) = {}
        /\ \A w \in DOMAIN worker :
              /\ \A k \in 2..Len(worker[w].task) :
                    outcome[worker[w].task[k].idx] = "pending"
              /\ worker[w].pc \in {"idle", "read"} =>
                    \A k \in 1..Len(worker[w].task) :
                        outcome[worker[w].task[k].idx] = "pending"

C17_Witness ==
    /\ Cardinality(InProgress) = 2
    /\ arguments.process = 2
    /\ NumChunks > 2
    /\ \E i \in Chunks : Finished(i)

(* the source bytes of chunk i *)
ChunkBytes(i) ==
    [lo |-> i * arguments.chunk_size,
     hi |-> IF (i + 1) * arguments.chunk_size < FileSize
            THEN (i + 1) * arguments.chunk_size ELSE FileSize,
     zli |-> None]

(* C18: whenever a compression attempt is made for chunk i, '{i}.npy'      *)
(* exists and holds exactly the chunk's source bytes, and the temp file is *)
(* never deleted before the last attempt for the chunk has ended (source   *)
(* file not named like a temp file).                                       *)
C18_StepOrder ==
    /\ \A w \in DOMAIN worker :
          worker[w].pc \in {"le-i64", "le-i32"} =>
              /\ Exists(TempFile(Instr(w).idx))
              /\ fs[TempFile(Instr(w).idx)] = ChunkBytes(Instr(w).idx)
              /\ outcome[Instr(w).idx] = "running"
    /\ \A i \in Chunks :
          /\ Exists(TempFile(i)) => (calls[i] = 1 /\ fs[TempFile(i)] = ChunkBytes(i))
          /\ (Len(attempts[i]) > 0 /\ ~Exists(TempFile(i))) =>
                /\ outcome[i] = "returned"
                /\ attempts[i][Len(attempts[i])].ok
          /\ outcome[i] = "returned" => (Len(attempts[i]) > 0 /\ ~Exists(TempFile(i)))
          /\ \A name \in ArtifactsOf(i) :
                [fs[name] EXCEPT !.zli = None] = ChunkBytes(i)

C18_Witness ==
    \E w \in DOMAIN worker :
        /\ worker[w].pc = "le-i32"
        /\ Instr(w).idx >= 1
        /\ ContentLen(fs[TempFile(Instr(w).idx)]) < arguments.chunk_size

(* C19: with terminating tool runs and fair scheduling, every run with a   *)
(* valid configuration eventually terminates, and in a run where no chunk  *)
(* exhausts its profiles every chunk was started and finished by the end.  *)
C19_Termination ==
    /\ (FileNamed /\ arguments.process \in 1..1024) => <>(pc = "exited")
    /\ []((pc = "exited" /\ Mapped /\ \A i \in Chunks : ~Exhausted(i))
             => \A i \in Chunks : calls[i] = 1 /\ outcome[i] = "returned")

C19_Witness ==
    /\ pc = "exited" /\ Mapped
    /\ NumChunks >= 2
    /\ \A i \in Chunks : outcome[i] = "returned"

FilesOf(i) == {TempFile(i), WideArtifact(i), NarrowArtifact(i)}

Changed(name) ==
    \/ (name \in DOMAIN fs) # (name \in DOMAIN fs')
    \/ name \in DOMAIN fs /\ name \in DOMAIN fs' /\ fs[name] # fs'[name]

(* C20: under every interleaving, '{i}.npy', '{i}.npy.8.zli' and           *)
(* '{i}.npy.4.zli' are created, written and deleted only by the routine    *)
(* processing chunk i; no file is touched by two chunks' routines.         *)
C20_FilesOwnedByChunk ==
    /\ [](/\ \A i, j \in Chunks : i # j => FilesOf(i) \cap FilesOf(j) = {}
          /\ \A name \in DOMAIN fs \ {SourceName} :
                \E i \in Chunks :
                    name \in FilesOf(i) /\ fs[name].lo = ChunkBytes(i).lo /\ calls[i] = 1)
    /\ [][\A name \in DOMAIN fs \cup DOMAIN fs' :
              Changed(name) =>
                  \E w \in DOMAIN worker :
                      /\ worker[w].task # << >>
                      /\ worker'[w] # worker[w]
                      /\ outcome[Instr(w).idx] = "running"
                      /\ name \in FilesOf(Instr(w).idx)
                      /\ \A v \in DOMAIN worker : v # w => worker'[v] = worker[v]]_vars

C20_Witness ==
    \E i, j \in Chunks :
        /\ i # j
        /\ Exists(TempFile(i)) /\ Exists(TempFile(j))
        /\ outcome[i] = "running" /\ outcome[j] = "running"

(* C14: a failure to delete the temporary chunk file does not mask the     *)
(* chunk's compression outcome: a chunk whose compression succeeded is     *)
(* still reported as successful and the run is not failed by the cleanup.  *)
C14_CleanupDoesNotMask ==
    /\ \A i \in Chunks :
          (Finished(i) /\ Len(attempts[i]) > 0 /\ attempts[i][Len(attempts[i])].ok)
              => outcome[i] = "returned"
    /\ (pc = "exited" /\ Mapped /\ \A i \in Chunks : ~Exhausted(i))
          => (exitStatus = 0 /\ error = None)

(* C16: the source file is only ever read during a run: no step writes,    *)
(* truncates or deletes it, also when its name is '{i}.npy' for a chunk i. *)
C16_SourceOnlyRead ==
    [][(FileNamed /\ arguments.fname \in DOMAIN fs)
          => (arguments.fname \in DOMAIN fs' /\ fs'[arguments.fname] = fs[arguments.fname])]_vars
====
